---- MODULE Spec2Model ----
(***************************************************************************)
(* Model of fit_to_gpx.py: the FIT -> GPX conversion pipeline              *)
(*   read_fit_file -> points_to_pdf -> pdf_to_gpx -> write,                *)
(* of the pure function pdf_to_gpx over normalized tables, and of          *)
(* semicircle_to_degrees over semicircle integers.                         *)
(*                                                                         *)
(* Numbers are exact rationals  num/den * 2^exp  (num, den odd, coprime):  *)
(* Python's int / float division of line 50 is exact on the values used    *)
(* here: checked against CPython for every semicircle of the model.        *)
(***************************************************************************)
EXTENDS Integers, Sequences, FiniteSets

VARIABLES
    opens,      \* input: fitparse.FitFile(fit_file) succeeds
    stream,     \* input: the container's "record" messages, in file order
    pc,         \* position of main
    pos,        \* number of messages the generator `records` has consumed
    alive,      \* the generator `records` has not finished
    points,     \* read_fit_file's list `points`
    logDone,    \* number of "Read all records in FIT file." log entries
    logErr,     \* number of "Error in record, continuing" log entries
    df,         \* the DataFrame
    gpx,        \* the GPX document
    fitState,   \* the input container's file handle
    outState,   \* the output file handle
    outText,    \* what has been written to the output path
    err,        \* the exception main ended with
    val,        \* semicircle_to_degrees: argument
    deg         \* semicircle_to_degrees: result

vars == <<opens, stream, pc, pos, alive, points, logDone, logErr, df,
          gpx, fitState, outState, outText, err, val, deg>>

-----------------------------------------------------------------------------
(* Bounds *)

MaxRecords == 3
MaxRows == 3
MaxOdd == 5

-----------------------------------------------------------------------------
(* Exact arithmetic *)

Abs(n) == IF n < 0 THEN -n ELSE n

RECURSIVE GCD(_, _)
GCD(a, b) == IF b = 0 THEN a ELSE GCD(b, a % b)

RECURSIVE TwoAdic(_)
TwoAdic(n) == IF n % 2 = 0 THEN 1 + TwoAdic(n \div 2) ELSE 0

RECURSIVE OddPart(_)
OddPart(n) == IF n % 2 = 0 THEN OddPart(n \div 2) ELSE n

RECURSIVE BitLen(_)
BitLen(n) == IF n = 0 THEN 0 ELSE 1 + BitLen(n \div 2)

\* n/d * 2^e in canonical form (d # 0)
Rat(n, d, e) ==
    IF n = 0 THEN [num |-> 0, den |-> 1, exp |-> 0]
    ELSE LET sgn == IF (n < 0) = (d < 0) THEN 1 ELSE -1
             on == OddPart(Abs(n))
             od == OddPart(Abs(d))
             g == GCD(on, od)
         IN [num |-> sgn * (on \div g), den |-> od \div g,
             exp |-> e + TwoAdic(Abs(n)) - TwoAdic(Abs(d))]

RatDiv(a, b) == Rat(a.num * b.den, a.den * b.num, a.exp - b.exp)

RatMul(a, b) == Rat(a.num * b.num, a.den * b.den, a.exp + b.exp)

-----------------------------------------------------------------------------
(* Values *)

Null == [null |-> TRUE]           \* None / NaN / NaT

IsNull(v) == v = Null

FullCircleBits == 32
FullCircleDegrees == 360

\* val / ((2**31) / 360)
semicircle_to_degrees_31(v) ==
    IF IsNull(v) THEN Null
    ELSE RatDiv(v, RatDiv(Rat(1, 1, FullCircleBits - 1), Rat(FullCircleDegrees, 1, 0)))

\* line 50: val / ((2**32) / 360)
semicircle_to_degrees(v) ==
    IF IsNull(v) THEN Null
    ELSE RatDiv(v, RatDiv(Rat(1, 1, FullCircleBits), Rat(FullCircleDegrees, 1, 0)))

-----------------------------------------------------------------------------
(* Point records and the container's record messages *)

Fields == {"cadence", "distance", "enhanced_speed", "heart_rate", "position_lat",
           "position_long", "speed", "timestamp", "unknown_88"}

Required == {"position_lat", "position_long", "timestamp"}

\* a message's get_values(): a dict over `keys`
Values(keys, lat, long, ts) ==
    [k \in keys |-> CASE k = "position_lat" -> lat
                      [] k = "position_long" -> long
                      [] k = "timestamp" -> ts
                      [] OTHER -> 0]

\* Point(**values) with a field defaulting to None
PointWithDefaults(values) ==
    IF DOMAIN values \subseteq Fields
    THEN [ok |-> TRUE,
          point |-> [f \in Fields |-> IF f \in DOMAIN values THEN values[f] ELSE Null]]
    ELSE [ok |-> FALSE, point |-> Null]

\* Point(**values): the dataclass has no defaults, so a missing or an
\* unexpected keyword raises TypeError
Point(values) ==
    IF DOMAIN values = Fields
    THEN [ok |-> TRUE, point |-> [f \in Fields |-> values[f]]]
    ELSE [ok |-> FALSE, point |-> Null]

Time(n) == [time |-> n]
Text(s) == [str |-> s]

Lat1 == Rat(1, 1, 30)
Lat2 == Rat(-3, 1, 20)
Long1 == Rat(-1, 1, 29)
Long2 == Rat(1, 1, 31)

Message(values) == [raises |-> FALSE, values |-> values]

\* a message whose parse raises inside the generator
Corrupt == [raises |-> TRUE, values |-> Values({}, Null, Null, Null)]

Messages ==
    { Message(Values(Fields, Lat1, Long1, Time(1))),
      Message(Values(Fields, Lat2, Long2, Time(2))),
      Message(Values(Fields, Lat1, Long2, Text("garbage"))),
      Message(Values(Fields, Null, Long1, Time(2))),
      Message(Values(Required, Lat2, Long1, Time(1))),
      Message(Values(Fields \ {"cadence"}, Lat1, Long1, Time(2))),
      Message(Values(Fields \cup {"altitude"}, Lat1, Long2, Time(1))),
      Corrupt }

SeqsUpTo(S, n) == UNION { [1..k -> S] : k \in 0..n }

-----------------------------------------------------------------------------
(* read_fit_file *)

\* next(records) on the generator fitfile.get_messages("record"): a generator
\* that raised is finished, and every later next() raises StopIteration
GenNext(msgs, p, live) ==
    IF ~live \/ p >= Len(msgs) THEN [kind |-> "StopIteration"]
    ELSE IF msgs[p + 1].raises THEN [kind |-> "FitParseError"]
    ELSE [kind |-> "message", values |-> msgs[p + 1].values]

\* the handlers tried in the order `except Exception`, `except StopIteration`
ExceptClauseSwapped(kind) == "continue"

\* the except clauses of the loop
ExceptClause(kind) == IF kind = "StopIteration" THEN "break" ELSE "continue"

\* FitFile(fit_file) wrapped in the per-record handler
ReadOpenSwallowed ==
    /\ pc = "read_open"
    /\ fitState' = IF opens THEN "open" ELSE "unopened"
    /\ alive' = opens
    /\ pc' = "read_loop"
    /\ UNCHANGED <<opens, stream, pos, points, logDone, logErr, df, gpx, outState,
                   outText, err, val, deg>>

\* lines 33-35: open the container, start the generator
ReadOpen ==
    /\ pc = "read_open"
    /\ IF opens
       THEN /\ fitState' = "open"
            /\ alive' = TRUE
            /\ pc' = "read_loop"
            /\ err' = err
       ELSE /\ fitState' = "unopened"
            /\ alive' = alive
            /\ pc' = "raised"
            /\ err' = "ContainerOpenError"
    /\ UNCHANGED <<opens, stream, pos, points, logDone, logErr, df, gpx, outState,
                   outText, val, deg>>

\* lines 37-46: one iteration of the while loop; on break, the return
ReadStep ==
    /\ pc = "read_loop"
    /\ logErr <= Len(stream)
    /\ LET got == GenNext(stream, pos, alive)
           made == IF got.kind = "message" THEN Point(got.values)
                   ELSE [ok |-> FALSE, point |-> Null]
           exc == IF got.kind # "message" THEN got.kind
                  ELSE IF made.ok THEN "none" ELSE "TypeError"
       IN /\ pos' = IF got.kind = "StopIteration" THEN pos ELSE pos + 1
          /\ alive' = (alive /\ got.kind = "message")
          /\ points' = IF made.ok THEN Append(points, made.point) ELSE points
          /\ IF exc = "none"
             THEN /\ UNCHANGED <<logDone, logErr, pc, fitState>>
             ELSE IF ExceptClause(exc) = "break"
             THEN /\ logDone' = logDone + 1
                  /\ logErr' = logErr
                  /\ pc' = "points_to_pdf"
                  \* no statement closes the container: `fitfile` goes out
                  \* of scope, and its release is the runtime's
                  /\ fitState' \in {"open", "closed"}
             ELSE /\ logErr' = logErr + 1
                  /\ UNCHANGED <<logDone, pc, fitState>>
    /\ UNCHANGED <<opens, stream, df, gpx, outState, outText, err, val, deg>>

-----------------------------------------------------------------------------
(* points_to_pdf *)

Columns == Fields \cup {"latitude", "longitude"}

\* pd.DataFrame(points): one row per Point; an empty list gives a frame
\* with no columns
DataFrame(pts) ==
    [columns |-> IF Len(pts) = 0 THEN {} ELSE Fields, rows |-> pts]

\* pd.to_datetime(..., errors="coerce") on one value: a datetime is kept,
\* None and an unparseable string become NaT
to_datetime(v) == IF "time" \in DOMAIN v THEN v ELSE Null

\* lines 60-62 applied to one row
Normalize(row) ==
    [c \in Columns |->
        CASE c = "timestamp" -> to_datetime(row["timestamp"])
          [] c = "latitude" -> semicircle_to_degrees(row["position_lat"])
          [] c = "longitude" -> semicircle_to_degrees(row["position_long"])
          [] OTHER -> row[c]]

\* df["timestamp"] on a frame without that column
RaisesKeyError(frame) == "timestamp" \notin frame.columns

points_to_pdf(pts) ==
    [columns |-> Columns,
     rows |-> [i \in 1..Len(pts) |-> Normalize(DataFrame(pts).rows[i])]]

NoFrame == [columns |-> {}, rows |-> <<>>]

-----------------------------------------------------------------------------
(* pdf_to_gpx *)

NoDoc == [none |-> TRUE]

\* dropna(axis=0, how="all", subset=...)
DropnaAll(rows, subset) ==
    SelectSeq(rows, LAMBDA r : \E c \in subset : ~IsNull(r[c]))

\* dropna(axis=0, subset=...): drop a row with a null in any named column
Dropna(rows, subset) ==
    SelectSeq(rows, LAMBDA r : \A c \in subset : ~IsNull(r[c]))

GPXTrackPoint(row) ==
    [latitude |-> row["latitude"], longitude |-> row["longitude"],
     time |-> row["timestamp"]]

\* the segment created only once there is a point to put in it
pdf_to_gpx_lazy(frame) ==
    LET kept == Dropna(frame.rows, {"latitude", "longitude", "timestamp"})
        segment == [points |-> [i \in 1..Len(kept) |-> GPXTrackPoint(kept[i])]]
    IN [tracks |-> << [segments |-> IF Len(kept) = 0 THEN <<>> ELSE <<segment>>] >>]

pdf_to_gpx(frame) ==
    LET kept == Dropna(frame.rows, {"latitude", "longitude", "timestamp"})
        segment == [points |-> [i \in 1..Len(kept) |-> GPXTrackPoint(kept[i])]]
    IN [tracks |-> << [segments |-> <<segment>>] >>]

-----------------------------------------------------------------------------
(* main *)

\* line 119
PointsToPdf ==
    /\ pc = "points_to_pdf"
    /\ IF RaisesKeyError(DataFrame(points))
       THEN /\ pc' = "raised"
            /\ err' = "KeyError"
            /\ df' = df
       ELSE /\ pc' = "pdf_to_gpx"
            /\ err' = err
            /\ df' = points_to_pdf(points)
    /\ UNCHANGED <<opens, stream, pos, alive, points, logDone, logErr, gpx, fitState,
                   outState, outText, val, deg>>

\* line 120
PdfToGpx ==
    /\ pc = "pdf_to_gpx"
    /\ gpx' = pdf_to_gpx(df)
    /\ pc' = "write"
    /\ UNCHANGED <<opens, stream, pos, alive, points, logDone, logErr, df, fitState,
                   outState, outText, err, val, deg>>

NoText == [xml |-> NoDoc]

\* f = open(args.gpx, "w"); f.write(...) with no close on the error path
WriteOutputUnscoped ==
    /\ pc = "write"
    /\ \E outcome \in {"ok", "open_fails", "write_fails"} :
          /\ outState' = CASE outcome = "ok" -> "closed"
                           [] outcome = "open_fails" -> "untouched"
                           [] outcome = "write_fails" -> "open"
          /\ outText' = IF outcome = "ok" THEN [xml |-> gpx] ELSE NoText
          /\ pc' = IF outcome = "ok" THEN "done" ELSE "raised"
          /\ err' = IF outcome = "ok" THEN err ELSE "OutputWriteError"
    /\ UNCHANGED <<opens, stream, pos, alive, points, logDone, logErr, df, gpx,
                   fitState, val, deg>>

\* lines 122-123: with open(args.gpx, "w") as f: f.write(gpx.to_xml())
WriteOutput ==
    /\ pc = "write"
    /\ \E outcome \in {"ok", "open_fails", "write_fails"} :
          /\ outState' = IF outcome = "open_fails" THEN "untouched" ELSE "closed"
          /\ outText' = IF outcome = "ok" THEN [xml |-> gpx] ELSE NoText
          /\ pc' = IF outcome = "ok" THEN "done" ELSE "raised"
          /\ err' = IF outcome = "ok" THEN err ELSE "OutputWriteError"
    /\ UNCHANGED <<opens, stream, pos, alive, points, logDone, logErr, df, gpx,
                   fitState, val, deg>>

\* what a run of main starts from, but for its inputs
Start ==
    /\ pos = 0
    /\ alive = FALSE
    /\ points = <<>>
    /\ logDone = 0
    /\ logErr = 0
    /\ gpx = NoDoc
    /\ fitState = "unopened"
    /\ outState = "untouched"
    /\ outText = NoText
    /\ err = "none"
    /\ deg = Null

Init ==
    /\ opens \in BOOLEAN
    /\ stream \in SeqsUpTo(Messages, MaxRecords)
    /\ pc = "read_open"
    /\ df = NoFrame
    /\ val = Null
    /\ Start

Next == ReadOpen \/ ReadStep \/ PointsToPdf \/ PdfToGpx \/ WriteOutput

Spec == Init /\ [][Next]_vars

\* the loop runs in one sequential thread: an iteration that can be taken is taken
FairSpec == Init /\ [][Next]_vars /\ WF_vars(ReadStep)

-----------------------------------------------------------------------------
(* pdf_to_gpx over normalized tables *)

Timestamps == {Null, Time(1), Time(2), Text("garbage")}

Rows ==
    { Normalize(Values(Fields, lat, long, ts)) :
        lat \in {Null, Lat1}, long \in {Null, Long1}, ts \in Timestamps }

InitGpx ==
    /\ opens = TRUE
    /\ stream = <<>>
    /\ pc = "pdf_to_gpx"
    /\ df \in [columns : {Columns}, rows : SeqsUpTo(Rows, MaxRows)]
    /\ val = Null
    /\ Start

NextGpx == PdfToGpx

SpecGpx == InitGpx /\ [][NextGpx]_vars

-----------------------------------------------------------------------------
(* semicircle_to_degrees over semicircle integers *)

OddUpTo(n) == { m \in 1..n : m % 2 = 1 }

\* m * 2^j within [-2^31, 2^31]
InSemicircleRange(m, j) ==
    \/ j + BitLen(m) <= FullCircleBits - 1
    \/ m = 1 /\ j = FullCircleBits - 1

Semicircles ==
    { Rat(0, 1, 0) } \cup
    { Rat(sgn * m, 1, j) :
        sgn \in {-1, 1},
        m \in OddUpTo(MaxOdd),
        j \in 0..(FullCircleBits - 1) }

InitDeg ==
    /\ opens = TRUE
    /\ stream = <<>>
    /\ pc = "semicircle_to_degrees"
    /\ df = NoFrame
    /\ val \in { s \in Semicircles : InSemicircleRange(Abs(s.num), s.exp) }
    /\ Start

\* lines 49-50
Convert ==
    /\ pc = "semicircle_to_degrees"
    /\ deg' = semicircle_to_degrees(val)
    /\ pc' = "returned"
    /\ UNCHANGED <<opens, stream, pos, alive, points, logDone, logErr, df, gpx,
                   fitState, outState, outText, err, val>>

NextDeg == Convert

SpecDeg == InitDeg /\ [][NextDeg]_vars

-----------------------------------------------------------------------------
(* Properties *)

Terminated == pc \in {"done", "raised"}

\* read_fit_file has returned
AfterRead ==
    \/ pc \in {"points_to_pdf", "pdf_to_gpx", "write", "done"}
    \/ pc = "raised" /\ err # "ContainerOpenError"

SegmentPoints(doc) == doc.tracks[1].segments[1].points

Present(lat, long, ts) == ~IsNull(lat) /\ ~IsNull(long) /\ "time" \in DOMAIN ts

\* a record whose fetch succeeds and whose values construct a Point
WellFormed(m) == ~m.raises /\ DOMAIN m.values = Fields

ValuesOf(msgs) == [i \in 1..Len(msgs) |-> msgs[i].values]

\* C1: read_fit_file returns exactly the Points of the stream's well-formed
\* records, in stream order, wherever the malformed records (fetch raises,
\* or values do not construct a Point) lie; a well-formed record after a
\* malformed one is still returned.
C1_Resilience ==
    AfterRead => points = ValuesOf(SelectSeq(stream, WellFormed))

\* C2: once the container has opened, main ends with an error only when the
\* output cannot be written; otherwise it runs all stages and writes the
\* document, whatever records failed to decode or carry a bad timestamp.
C2_OnlyFatalErrorsAbort ==
    /\ pc = "raised" => err \in {"ContainerOpenError", "OutputWriteError"}
    /\ pc = "done" => outText = [xml |-> gpx] /\ outState = "closed"

\* C3: a container that opens and holds zero records goes through
\* read_fit_file, points_to_pdf and pdf_to_gpx without error, and the
\* document has 1 track, 1 segment and 0 points.
C3_EmptyContainer ==
    (opens /\ Len(stream) = 0) =>
        /\ err # "KeyError"
        /\ gpx # NoDoc =>
              /\ Len(gpx.tracks) = 1
              /\ Len(gpx.tracks[1].segments) = 1
              /\ Len(SegmentPoints(gpx)) = 0

Survives(row) == Present(row["latitude"], row["longitude"], row["timestamp"])

RECURSIVE ExpectedPoints(_)
ExpectedPoints(rows) ==
    IF Len(rows) = 0 THEN <<>>
    ELSE (IF Survives(Head(rows))
          THEN << [latitude |-> Head(rows)["latitude"],
                   longitude |-> Head(rows)["longitude"],
                   time |-> Head(rows)["timestamp"]] >>
          ELSE <<>>) \o ExpectedPoints(Tail(rows))

\* C4: the segment's points are exactly the table rows whose latitude,
\* longitude and timestamp are all non-null, in table order, one point per
\* surviving row.
C4_RowFiltering ==
    gpx # NoDoc =>
        /\ SegmentPoints(gpx) = ExpectedPoints(df.rows)
        /\ Len(SegmentPoints(gpx)) =
              Cardinality({ i \in 1..Len(df.rows) : Survives(df.rows[i]) })

C4_Witness ==
    /\ gpx # NoDoc
    /\ \E i, j, k \in 1..Len(df.rows) :
          /\ i < j /\ j < k
          /\ Survives(df.rows[i]) /\ Survives(df.rows[k])
          /\ ~Survives(df.rows[j])
          /\ ~IsNull(df.rows[j]["latitude"]) /\ ~IsNull(df.rows[j]["longitude"])
    /\ Len(SegmentPoints(gpx)) = 2

\* messages the generator handed to the loop
Fetched == SelectSeq(SubSeq(stream, 1, pos), LAMBDA m : ~m.raises)

Padded(values) == [f \in Fields |-> IF f \in DOMAIN values THEN values[f] ELSE Null]

InSeq(x, sq) == \E i \in 1..Len(sq) : sq[i] = x

TrackPointOf(values) ==
    [latitude |-> semicircle_to_degrees(values["position_lat"]),
     longitude |-> semicircle_to_degrees(values["position_long"]),
     time |-> values["timestamp"]]

HasPosition(values) ==
    Present(values["position_lat"], values["position_long"], values["timestamp"])

\* C5 as stated: a fetched record that carries position_lat, position_long
\* and timestamp but omits other Point fields is accepted with the omitted
\* fields null, and yields a point in the document.
C5_Original ==
    AfterRead =>
        \A i \in 1..Len(Fetched) :
            LET v == Fetched[i].values
            IN (Required \subseteq DOMAIN v /\ DOMAIN v \subseteq Fields) =>
                  /\ InSeq(Padded(v), points)
                  /\ (gpx # NoDoc /\ HasPosition(v)) =>
                        InSeq(TrackPointOf(v), SegmentPoints(gpx))

Accepted == SelectSeq(Fetched, LAMBDA m : DOMAIN m.values = Fields)

\* C5, amended: a fetched record is accepted exactly when its values name
\* all nine Point fields and nothing else; a record that omits a field is
\* dropped and yields no point; the document's points are those of the
\* accepted records whose latitude, longitude and timestamp are present.
C5_Amended ==
    /\ AfterRead => points = ValuesOf(Accepted)
    /\ gpx # NoDoc =>
          SegmentPoints(gpx) =
              LET kept == SelectSeq(Accepted, LAMBDA m : HasPosition(m.values))
              IN [i \in 1..Len(kept) |-> TrackPointOf(kept[i].values)]

C5_Witness ==
    /\ pc = "done"
    /\ \E i \in 1..Len(Fetched) :
          /\ DOMAIN Fetched[i].values = Required
          /\ HasPosition(Fetched[i].values)
          /\ ~InSeq(TrackPointOf(Fetched[i].values), SegmentPoints(gpx))
    /\ Len(SegmentPoints(gpx)) = 1

\* C6: when the container cannot be opened, read_fit_file raises to main,
\* main ends with that error, and the output path is never touched.
C6_OpenFailureLeavesNoOutput ==
    ~opens =>
        /\ pc \in {"read_open", "raised"}
        /\ pc = "raised" => err = "ContainerOpenError"
        /\ outState = "untouched"
        /\ outText = NoText
        /\ logDone = 0 /\ logErr = 0

C6_Witness == ~opens /\ pc = "raised" /\ Len(stream) > 0

\* C7 as stated: on every exit path of main, the input container and the
\* output destination, if opened, are closed.
C7_Original ==
    Terminated => fitState # "open" /\ outState # "open"

\* C7, amended: on every exit path of main the output destination, if it
\* was opened, is closed; the input container is opened outside any scope
\* and no statement closes it.
C7_Amended ==
    Terminated => outState # "open"

C7_Witness ==
    pc = "raised" /\ err = "OutputWriteError" /\ outState = "closed"

\* C8: semicircle_to_degrees(s) * 2^31 = s * 180 for every semicircle
\* integer s of the signed 32-bit range and for 2^31; 2^31 gives 180, 0
\* gives 0 and -2^31 gives -180.
C8_CoordinateConversion ==
    pc = "returned" =>
        /\ RatMul(deg, Rat(1, 1, 31)) = RatMul(val, Rat(180, 1, 0))
        /\ val = Rat(1, 1, 31) => deg = Rat(180, 1, 0)
        /\ val = Rat(0, 1, 0) => deg = Rat(0, 1, 0)
        /\ val = Rat(-1, 1, 31) => deg = Rat(-180, 1, 0)

C8_Witness == pc = "returned" /\ val = Rat(-3, 1, 29) /\ deg = Rat(-135, 1, 0)

\* C9: the document pdf_to_gpx returns has exactly one track, and that
\* track exactly one segment, whether no, some or all rows survive.
C9_DocumentStructure ==
    gpx # NoDoc => Len(gpx.tracks) = 1 /\ Len(gpx.tracks[1].segments) = 1

C9_Witness ==
    /\ gpx # NoDoc
    /\ Len(df.rows) = MaxRows
    /\ \A i \in 1..Len(df.rows) : ~Survives(df.rows[i])
    /\ Len(SegmentPoints(gpx)) = 0

====
